---- MODULE Spec2Model ----
(***************************************************************************)
(* exif-mcp: the byte-source resolver (loadImage), the segment option      *)
(* mapper (buildOptions and the presets) and the eleven tool handlers of   *)
(* registerTools, as a state machine.                                      *)
(*                                                                         *)
(* Representation.                                                         *)
(*   - A JavaScript string of characters (src.data, src.buffer, a base64   *)
(*     text) is a record [s, fill]: the characters of s followed by `fill` *)
(*     copies of the character 'A'.  Characters are numbers: 0..63 are the *)
(*     base64 alphabet in its own order ('A' = 0 ... '/' = 63), the codes  *)
(*     above 63 are the other characters the code looks at.                *)
(*   - A byte sequence (Buffer, Uint8Array) is a record [b, zeros]: the    *)
(*     bytes of b followed by `zeros` zero bytes.                          *)
(*   - A message, a path and a URL are sequences of string tokens, read    *)
(*     as their concatenation.                                             *)
(*   - An optional field of an object is a missing key of the function.    *)
(*   - calls is the log of the calls one invocation has made so far:      *)
(*     "readFile", "fetch", "decode" (Buffer.from), "parse" (the exifr     *)
(*     call) and "respond" (the handler's return).                         *)
(***************************************************************************)
EXTENDS Integers, Sequences, FiniteSets, TLC

VARIABLES pc, tool, args, io, ioRes, loaded, opts, parserIn, parserRes, response, calls

vars == <<pc, tool, args, io, ioRes, loaded, opts, parserIn, parserRes, response, calls>>

(* ----------------------------- bounds ---------------------------------- *)

\* longest byte sequence given inline (base64 / buffer)
MaxBytes == 3

\* longest requested segment list given to buildOptions directly
MaxSegments == 2

\* tool invocations that can be in flight at once
MaxInFlight == 2

(* --------------------------- characters -------------------------------- *)

ChEq == 64
ChComma == 65
ChColon == 66
ChSemi == 67
ChMinus == 68
ChUnderscore == 69
ChSpace == 70

\* the literal of the size guard of the base64 branch
MaxBase64Length == 40000000

None == [t |-> "none"]

Str(s, n) == [s |-> s, fill |-> n]

StrLen(x) == Len(x.s) + x.fill

EmptyStr == Str(<<>>, 0)

Bytes(b, z) == [b |-> b, zeros |-> z]

\* "data:"
DataPrefix == <<29, 26, 45, 26, ChColon>>

\* "data:image/jpeg;base64,"
JpegHeader == DataPrefix \o <<34, 38, 26, 32, 30, 63, 35, 41, 30, 32, ChSemi, 27, 26, 44, 30, 58, 56, ChComma>>

\* "data:,"
BareHeader == DataPrefix \o <<ChComma>>

(* ------------------------------ base64 --------------------------------- *)

RECURSIVE EncodeSeq(_)
\* Buffer.prototype.toString('base64') on the bytes b
EncodeSeq(b) ==
  IF Len(b) = 0 THEN <<>>
  ELSE IF Len(b) = 1 THEN <<b[1] \div 4, (b[1] % 4) * 16, ChEq, ChEq>>
  ELSE IF Len(b) = 2 THEN <<b[1] \div 4, (b[1] % 4) * 16 + (b[2] \div 16), (b[2] % 16) * 4, ChEq>>
  ELSE <<b[1] \div 4, (b[1] % 4) * 16 + (b[2] \div 16), (b[2] % 16) * 4 + (b[3] \div 64), b[3] % 64>>
       \o EncodeSeq(SubSeq(b, 4, Len(b)))

ToBase64(bytes) == Str(EncodeSeq(bytes.b \o [i \in 1..bytes.zeros |-> 0]), 0)

\* the value of a character in the decoder's table, 64 for a character it skips
Unbase64(c) ==
  IF c \in 0..63 THEN c
  ELSE IF c = ChMinus THEN 62
  ELSE IF c = ChUnderscore THEN 63
  ELSE 64

\* position of the first '=' of s, Len(s) + 1 when there is none
FirstIndex(s, c) ==
  IF \E i \in 1..Len(s) : s[i] = c
  THEN CHOOSE i \in 1..Len(s) : s[i] = c /\ \A j \in 1..(i - 1) : s[j] # c
  ELSE Len(s) + 1

RECURSIVE LegalDigits(_)
LegalDigits(s) ==
  IF Len(s) = 0 THEN <<>>
  ELSE (IF Unbase64(s[1]) < 64 THEN <<Unbase64(s[1])>> ELSE <<>>) \o LegalDigits(Tail(s))

RECURSIVE DecodeSeq(_)
\* groups of four digits give three bytes, a tail of three gives two, of two gives one
DecodeSeq(d) ==
  IF Len(d) < 2 THEN <<>>
  ELSE IF Len(d) = 2 THEN <<d[1] * 4 + (d[2] \div 16)>>
  ELSE IF Len(d) = 3 THEN <<d[1] * 4 + (d[2] \div 16), (d[2] % 16) * 16 + (d[3] \div 4)>>
  ELSE <<d[1] * 4 + (d[2] \div 16), (d[2] % 16) * 16 + (d[3] \div 4), (d[3] % 4) * 64 + d[4]>>
       \o DecodeSeq(SubSeq(d, 5, Len(d)))

\* Buffer.from(x, 'base64'): characters outside the alphabet are skipped and
\* decoding stops at the first '='; the `fill` 'A's first complete the open
\* group of four, the rest decode to zero bytes
BufferFromBase64(x) ==
  LET stop == FirstIndex(x.s, ChEq)
      d == LegalDigits(SubSeq(x.s, 1, stop - 1))
      fill == IF stop <= Len(x.s) THEN 0 ELSE x.fill
      need == (4 - (Len(d) % 4)) % 4
      k == IF fill < need THEN fill ELSE need
      rest == fill - k
      tail == IF rest % 4 = 2 THEN 1 ELSE IF rest % 4 = 3 THEN 2 ELSE 0
  IN Bytes(DecodeSeq(d \o [i \in 1..k |-> 0]), 3 * (rest \div 4) + tail)

(* --------------------------- loadImage --------------------------------- *)

Has(o, f) == f \in DOMAIN o

FalsyAbsent(o, f) == ~Has(o, f)

\* !src.f for an optional field holding a path or a URL: absent or empty
Falsy(o, f) == ~Has(o, f) \/ Len(o[f]) = 0

\* !src.f for an optional field holding a string of characters
FalsyStr(o, f) == ~Has(o, f) \/ StrLen(o[f]) = 0

Error(msg) == [isError |-> TRUE, msg |-> msg]

Return(bytes) == [t |-> "return", bytes |-> bytes]

Throw(err) == [t |-> "throw", err |-> err]

Await(op, target) == [t |-> "await", op |-> op, target |-> target]

StartsWith(s, prefix) ==
  Len(s) >= Len(prefix) /\ SubSeq(s, 1, Len(prefix)) = prefix

IsFileUrlAnyCase(url) == Len(url) > 0 /\ url[1] \in {"file://", "FILE://"}

\* url.startsWith('file://')
IsFileUrl(url) == Len(url) > 0 /\ url[1] = "file://"

\* the decoding of one percent-escape of a URL path
PercentDecode(tok) ==
  IF tok = "%20" THEN " " ELSE IF tok = "%2F" THEN "/" ELSE tok

\* fileURLToPath on a URL <<"file://", host, path tokens...>>: a host other
\* than the empty one or localhost and an encoded slash are errors; the path
\* is percent-decoded
FileURLToPath(url) ==
  IF Len(url) < 3 THEN Throw(Error(<<"Invalid URL">>))
  ELSE IF url[2] \notin {"", "localhost"}
  THEN Throw(Error(<<"File URL host must be \"localhost\" or empty on ", "linux">>))
  ELSE IF \E i \in 3..Len(url) : url[i] = "%2F"
  THEN Throw(Error(<<"File URL path must not include encoded / characters">>))
  ELSE [t |-> "path", path |-> [i \in 1..(Len(url) - 2) |-> PercentDecode(url[i + 2])]]

SplitSecondWhole(x) == x

\* src.data.split(',')[1]: the text between the first comma and the second
\* one (or the end), absent when there is no comma
SplitSecond(x) ==
  LET c1 == FirstIndex(x.s, ChComma)
      after == SubSeq(x.s, c1 + 1, Len(x.s))
      c2 == FirstIndex(after, ChComma)
  IN IF c1 > Len(x.s) THEN None
     ELSE IF c2 > Len(after) THEN Str(after, x.fill)
     ELSE Str(SubSeq(after, 1, c2 - 1), 0)

\* Buffer.from(undefined, 'base64')
BufferFromTypeError ==
  Error(<<"The first argument must be of type string or an instance of Buffer, ArrayBuffer, or Array or an Array-like Object.",
          " Received undefined">>)

\* the size guard of the base64 branch
TooLargeStrict(data) == StrLen(data) >= MaxBase64Length

TooLarge(data) == StrLen(data) > MaxBase64Length

\* the base64 branch after the required-field test
LoadBase64(data) ==
  IF TooLarge(data)
  THEN Throw(Error(<<"PayloadTooLarge", ": Base64 data exceeds 30MB limit">>))
  ELSE IF StartsWith(data.s, DataPrefix)
  THEN LET base64Data == SplitSecond(data)
       IN IF base64Data = None THEN Throw(BufferFromTypeError)
          ELSE Return(BufferFromBase64(base64Data))
  ELSE Return(BufferFromBase64(data))

\* the buffer branch after the required-field test
LoadBuffer(buffer) == Return(BufferFromBase64(buffer))

LoadBodyPathFirst(src) ==
  IF Has(src, "path") /\ Len(src.path) > 0 THEN Await("readFile", src.path)
  ELSE IF src.kind = "url" /\ ~Falsy(src, "url") THEN Await("fetch", src.url)
  ELSE Throw(Error(<<"Path is required for kind=\"path\"">>))

\* the body of the try block of loadImage up to its first suspension
LoadBody(src) ==
  CASE src.kind = "path" ->
         IF Falsy(src, "path") THEN Throw(Error(<<"Path is required for kind=\"path\"">>))
         ELSE Await("readFile", src.path)
    [] src.kind = "url" ->
         IF Falsy(src, "url") THEN Throw(Error(<<"URL is required for kind=\"url\"">>))
         ELSE IF IsFileUrl(src.url)
         THEN LET filePath == FileURLToPath(src.url)
              IN IF filePath.t = "throw" THEN filePath ELSE Await("readFile", filePath.path)
         ELSE Await("fetch", src.url)
    [] src.kind = "base64" ->
         IF FalsyStr(src, "data") THEN Throw(Error(<<"Data is required for kind=\"base64\"">>))
         ELSE LoadBase64(src.data)
    [] src.kind = "buffer" ->
         IF FalsyStr(src, "buffer") THEN Throw(Error(<<"Buffer is required for kind=\"buffer\"">>))
         ELSE LoadBuffer(src.buffer)
    [] OTHER -> Throw(Error(<<"Unsupported image source kind: ", src.kind>>))

\* the message of a rejected fs.promises.readFile
ReadFileError(code, path) ==
  Error(<<code, ": ", IF code = "ENOENT" THEN "no such file or directory" ELSE "permission denied", ", open '">>
        \o path \o <<"'">>)

\* response.ok
ResponseOk(res) == res.status \in 200..299

FetchStatusErrorNoText(res) ==
  Error(<<"Failed to fetch URL: ", ToString(res.status)>>)

\* `Failed to fetch URL: ${response.status} ${response.statusText}`
FetchStatusError(res) ==
  Error(<<"Failed to fetch URL: ", ToString(res.status), " ">> \o res.statusText)

\* the try block resumed with the outcome of the awaited readFile or fetch
LoadResume(op, out) ==
  IF out.t = "reject" THEN Throw(out.err)
  ELSE IF op = "readFile" THEN Return(out.bytes)
  ELSE IF ~ResponseOk(out) THEN Throw(FetchStatusError(out))
  ELSE Return(out.body)

LoadCatchRaw(r) == r

\* the catch block: an Error is rethrown with the load-failure prefix
LoadCatch(r) ==
  IF r.t = "throw" /\ r.err.isError
  THEN Throw(Error(<<"Failed to load image: ">> \o r.err.msg))
  ELSE r

\* the calls the try block has made when it suspends or ends with r: the
\* awaited readFile or fetch, or Buffer.from (which the required-field test,
\* the size guard and fileURLToPath come before)
CallsOf(r) ==
  IF r.t = "await" THEN <<r.op>>
  ELSE IF r.t = "return" \/ r = Throw(BufferFromTypeError) THEN <<"decode">>
  ELSE <<>>

(* ------------------------ JavaScript values ---------------------------- *)

Undefined == [t |-> "undefined"]

Null == [t |-> "null"]

JStr(s) == [t |-> "string", str |-> s]

JChars(x) == [t |-> "string", chars |-> x]

JNum(n) == [t |-> "number", n |-> n]

JBool(b) == [t |-> "boolean", bool |-> b]

JDate(iso) == [t |-> "date", iso |-> iso]

JBytes(bytes) == [t |-> "bytes", bytes |-> bytes]

\* an object: o maps each own key to its value
JObj(o) == [t |-> "object", o |-> o]

Some(v) == [some |-> v]

\* an optional argument of a call: None when the key is absent
Arg(a, f) == IF Has(a, f) THEN Some(a[f]) ELSE None

\* !v
Not(v) ==
  \/ v.t \in {"undefined", "null"}
  \/ v.t = "string" /\ Has(v, "str") /\ v.str = ""
  \/ v.t = "string" /\ Has(v, "chars") /\ StrLen(v.chars) = 0
  \/ v.t = "number" /\ v.n = 0
  \/ v.t = "boolean" /\ ~v.bool

\* Object.keys(v)
ObjectKeys(v) == IF v.t = "object" THEN DOMAIN v.o ELSE {}

\* v[key]
Get(v, key) == IF v.t = "object" /\ key \in DOMAIN v.o THEN v.o[key] ELSE Undefined

RECURSIVE ToJSONValue(_)
\* the value JSON.stringify writes for v: a Date becomes its ISO string and
\* a property holding undefined is left out
ToJSONValue(v) ==
  IF v.t = "date" THEN JStr(v.iso)
  ELSE IF v.t = "object"
  THEN JObj([k \in {q \in DOMAIN v.o : v.o[q].t # "undefined"} |-> ToJSONValue(v.o[k])])
  ELSE v

\* JSON.stringify(data, null, 2); undefined has no JSON text
JSONStringify(v) ==
  IF v.t = "undefined" THEN Undefined ELSE [t |-> "json", doc |-> ToJSONValue(v)]

\* JSON.parse(text)
JSONParse(text) ==
  IF text.t = "json" THEN text.doc ELSE [t |-> "SyntaxError"]

Message(toks) == [t |-> "message", msg |-> toks]

(* ------------------------ segment option mapper ------------------------ *)

Flags == {"tiff", "xmp", "icc", "iptc", "jfif", "ihdr"}

SegmentTypes == {"EXIF", "GPS", "XMP", "ICC", "IPTC", "JFIF", "IHDR"}

AllFlags(b) == [f \in Flags |-> b]

FlagOfGpsApart(segment) ==
  CASE segment = "EXIF" -> "tiff"
    [] segment \in {"GPS", "XMP"} -> "xmp"
    [] segment = "ICC" -> "icc"
    [] segment = "IPTC" -> "iptc"
    [] segment = "JFIF" -> "jfif"
    [] segment = "IHDR" -> "ihdr"

\* the switch of buildOptions: the flag a requested segment turns on
FlagOf(segment) ==
  CASE segment \in {"EXIF", "GPS"} -> "tiff"
    [] segment = "XMP" -> "xmp"
    [] segment = "ICC" -> "icc"
    [] segment = "IPTC" -> "iptc"
    [] segment = "JFIF" -> "jfif"
    [] segment = "IHDR" -> "ihdr"

ForEachSegmentFirst(options, segments) ==
  IF Len(segments) = 0 THEN options
  ELSE [options EXCEPT ![FlagOf(Head(segments))] = TRUE]

RECURSIVE ForEachSegment(_, _)
\* segments.forEach(...) on the options so far
ForEachSegment(options, segments) ==
  IF Len(segments) = 0 THEN options
  ELSE ForEachSegment([options EXCEPT ![FlagOf(Head(segments))] = TRUE], Tail(segments))

buildOptionsDefaultOff(segments) ==
  IF segments = None THEN AllFlags(TRUE)
  ELSE ForEachSegment(AllFlags(FALSE), segments.some)

buildOptions(segments) ==
  IF segments = None \/ Len(segments.some) = 0 THEN AllFlags(TRUE)
  ELSE ForEachSegment(AllFlags(FALSE), segments.some)

buildExifOptionsNonEmpty(pick) ==
  LET base == [f \in Flags |-> f = "tiff"]
  IN IF pick = None \/ Len(pick.some) = 0 THEN base
     ELSE [f \in Flags \cup {"pick"} |-> IF f = "pick" THEN pick.some ELSE base[f]]

\* { ...base, ...(pick ? { pick } : {}) }
buildExifOptions(pick) ==
  LET base == [f \in Flags |-> f = "tiff"]
  IN IF pick = None THEN base
     ELSE [f \in Flags \cup {"pick"} |-> IF f = "pick" THEN pick.some ELSE base[f]]

buildXmpOptionsDefaultOn(extended) ==
  [f \in Flags \cup {"multiSegment"} |->
     IF f = "multiSegment" THEN (IF extended = None THEN TRUE ELSE extended.some)
     ELSE f = "xmp"]

buildXmpOptions(extended) ==
  [f \in Flags \cup {"multiSegment"} |->
     IF f = "multiSegment" THEN (IF extended = None THEN FALSE ELSE extended.some)
     ELSE f = "xmp"]

\* segment.toLowerCase()
ToLowerCase(segment) ==
  CASE segment = "ICC" -> "icc"
    [] segment = "IPTC" -> "iptc"
    [] segment = "JFIF" -> "jfif"
    [] segment = "IHDR" -> "ihdr"
    [] segment = "XMP" -> "xmp"
    [] segment = "GPS" -> "gps"
    [] segment = "EXIF" -> "exif"

buildSegmentOptionsOverTiff(segment) ==
  [AllFlags(FALSE) EXCEPT ![ToLowerCase(segment)] = TRUE, !["tiff"] = TRUE]

buildSegmentOptions(segment) ==
  [AllFlags(FALSE) EXCEPT ![ToLowerCase(segment)] = TRUE]

(* --------------------------- tool handlers ----------------------------- *)

SegmentTools == {"read-icc", "read-iptc", "read-jfif", "read-ihdr"}

ParseTools == {"read-metadata", "read-exif", "read-xmp"} \cup SegmentTools

Tools == ParseTools \cup {"orientation", "rotation-info", "gps-coordinates", "thumbnail"}

\* the segmentTools table
SegmentOf(name) ==
  CASE name = "read-icc" -> "ICC"
    [] name = "read-iptc" -> "IPTC"
    [] name = "read-jfif" -> "JFIF"
    [] name = "read-ihdr" -> "IHDR"

\* the exifr function a tool delegates to
QueryOf(name) ==
  CASE name \in ParseTools -> "parse"
    [] name = "orientation" -> "orientation"
    [] name = "rotation-info" -> "rotation"
    [] name = "gps-coordinates" -> "gps"
    [] name = "thumbnail" -> "thumbnail"

OptionsOfAnyTool(name, a) ==
  IF name \in ParseTools THEN buildOptions(Arg(a, "segments")) ELSE None

\* the options a tool builds for exifr.parse; the other queries take none
OptionsOf(name, a) ==
  CASE name = "read-metadata" -> buildOptions(Arg(a, "segments"))
    [] name = "read-exif" -> buildExifOptions(Arg(a, "pick"))
    [] name = "read-xmp" -> buildXmpOptions(Arg(a, "extended"))
    [] name \in SegmentTools -> buildSegmentOptions(SegmentOf(name))
    [] OTHER -> None

createSuccessResponseToString(data) ==
  [content |-> <<[type |-> "text", text |-> JStr("[object Object]")]>>]

createSuccessResponse(data) ==
  [content |-> <<[type |-> "text",
                  text |-> IF data.t = "string" THEN data ELSE JSONStringify(data)]>>]

createErrorResponse(message) ==
  [content |-> <<[type |-> "text", text |-> Message(message)]>>, isError |-> TRUE]

\* the text after "No " of a tool's nothing-found message
NothingOf(name) ==
  CASE name = "read-metadata" -> <<"metadata">>
    [] name = "read-exif" -> <<"EXIF", " metadata">>
    [] name = "read-xmp" -> <<"XMP", " metadata">>
    [] name \in SegmentTools -> <<SegmentOf(name), " metadata">>
    [] name = "orientation" -> <<"orientation", " metadata">>
    [] name = "rotation-info" -> <<"rotation", " metadata">>
    [] name = "gps-coordinates" -> <<"GPS", " data">>
    [] name = "thumbnail" -> <<"thumbnail">>

NoneFound(name) == <<"No ">> \o NothingOf(name) \o <<" found", " in image">>

\* the prefix of a tool's catch block
ErrorPrefix(name) ==
  CASE name = "read-metadata" -> <<"Error reading metadata: ">>
    [] name = "read-exif" -> <<"Error reading EXIF data: ">>
    [] name = "read-xmp" -> <<"Error reading XMP data: ">>
    [] name \in SegmentTools -> <<"Error reading ", SegmentOf(name), " data: ">>
    [] name = "orientation" -> <<"Error reading orientation: ">>
    [] name = "rotation-info" -> <<"Error reading rotation info: ">>
    [] name = "gps-coordinates" -> <<"Error reading GPS data: ">>
    [] name = "thumbnail" -> <<"Error extracting thumbnail: ">>

LoadSucceededAlways(r) == TRUE

\* `await loadImage(image)` inside the try block: the statements after it
\* run only when it returned, a throw goes to the catch block
LoadSucceeded(r) == r.t = "return"

\* const buf = await loadImage(image)
BytesOf(r) == IF r.t = "return" THEN r.bytes ELSE Undefined

HandlerRethrow(name, err) == [thrown |-> err]

HandlerCatchOwnWords(name, err) == createErrorResponse(ErrorPrefix(name) \o <<"Unknown error">>)

\* the catch block of a handler; err.msg of a value that is no Error is String(error)
HandlerCatch(name, err) == createErrorResponse(ErrorPrefix(name) \o err.msg)

NothingParsedByEmptiness(name, meta) == Not(meta) \/ ObjectKeys(meta) = {}

NothingParsedNoKeys(name, meta) ==
  CASE name \in {"read-metadata", "read-exif"} -> Not(meta)
    [] name = "read-xmp" -> Not(meta) \/ Not(Get(meta, "xmp"))
    [] name \in SegmentTools -> Not(meta) \/ Not(Get(meta, ToLowerCase(SegmentOf(name))))

\* the test that sends a parse-based tool to its nothing-found response
NothingParsed(name, meta) ==
  CASE name \in {"read-metadata", "read-exif"} -> Not(meta) \/ ObjectKeys(meta) = {}
    [] name = "read-xmp" -> Not(meta) \/ Not(Get(meta, "xmp"))
    [] name \in SegmentTools -> Not(meta) \/ Not(Get(meta, ToLowerCase(SegmentOf(name))))

GpsAsOthers(gps) ==
  IF Not(gps) THEN createErrorResponse(NoneFound("gps-coordinates")) ELSE createSuccessResponse(gps)

\* the gps-coordinates handler after exifr.gps returned
GpsReturn(gps) == createSuccessResponse(IF Not(gps) THEN Null ELSE gps)

\* the thumbnail handler after exifr.thumbnail returned
ThumbnailReturn(a, thumbnail) ==
  IF Not(thumbnail) THEN createErrorResponse(NoneFound("thumbnail"))
  ELSE LET base64 == ToBase64(thumbnail.bytes)
       IN IF ~Has(a, "url") \/ ~a.url
          THEN createSuccessResponse(JObj([dataUrl |-> JChars(Str(JpegHeader \o base64.s, 0))]))
          ELSE createSuccessResponse(JObj([base64 |-> JChars(base64)]))

\* a handler's try block after the delegated exifr call returned v
HandlerReturn(name, a, v) ==
  CASE name \in ParseTools ->
         IF NothingParsed(name, v) THEN createErrorResponse(NoneFound(name))
         ELSE createSuccessResponse(v)
    [] name = "orientation" ->
         IF v = Undefined THEN createErrorResponse(NoneFound(name))
         ELSE createSuccessResponse(JObj([orientation |-> v]))
    [] name = "rotation-info" ->
         IF Not(v) THEN createErrorResponse(NoneFound(name))
         ELSE createSuccessResponse(v)
    [] name = "gps-coordinates" -> GpsReturn(v)
    [] name = "thumbnail" -> ThumbnailReturn(a, v)

(* ----------------------------- inputs ---------------------------------- *)

ByteVals == {0, 77, 255}

ByteSeqs(n) == UNION {[1..k -> ByteVals] : k \in 0..n}

\* the images given inline: every non-empty byte sequence up to MaxBytes
InlineBytes == {Bytes(b, 0) : b \in ByteSeqs(MaxBytes) \ {<<>>}}

\* what a file or a response body holds
FileContents == {Bytes(<<>>, 0), Bytes(<<77>>, 0), Bytes(<<255, 216, 255>>, 0)}

DataUri(header, x) == Str(header \o ToBase64(x).s, 0)

\* strings of 39,999,999, 40,000,000 and 40,000,001 characters
HugeStrings == {Str(<<>>, MaxBase64Length + d) : d \in {-1, 0, 1}}

HugeDataUris == {Str(JpegHeader, MaxBase64Length - Len(JpegHeader) + d) : d \in {0, 1}}

\* "TWFu" is well formed; the others leave out the padding, hold a space,
\* use the URL alphabet, or are a single character
OddStrings ==
  {Str(<<19, 22, 5, 46>>, 0), Str(<<19, 22>>, 0), Str(<<19, ChSpace, 22, 5, 46>>, 0),
   Str(<<ChMinus, ChUnderscore, 0, 0>>, 0), Str(<<19>>, 0)}

\* data URIs with no comma, with no payload and with a second comma
OddDataUris ==
  {Str(DataPrefix, 0), Str(JpegHeader, 0), Str(JpegHeader \o <<19, 22, ChComma, 5, 46>>, 0),
   DataUri(BareHeader, Bytes(<<77>>, 0))}

DataVals ==
  {EmptyStr} \cup {ToBase64(x) : x \in InlineBytes} \cup {DataUri(JpegHeader, x) : x \in InlineBytes}
  \cup HugeStrings \cup HugeDataUris \cup OddStrings \cup OddDataUris

BufferVals == {EmptyStr} \cup {ToBase64(x) : x \in InlineBytes} \cup HugeStrings \cup OddStrings

PathVals == {<<>>, <<"/img/a.jpg">>, <<"/img/", "PayloadTooLarge", ".jpg">>}

UrlVals ==
  {<<>>, <<"file://", "", "/img/a.jpg">>, <<"file://", "", "/img/a", "%20", "b.jpg">>,
   <<"file://", "remote", "/img/a.jpg">>, <<"file://", "", "/img", "%2F", "a.jpg">>,
   <<"https://", "example.com", "/image.jpg">>, <<"http://", "example.com", "/PayloadTooLarge">>,
   <<"FILE://", "", "/img/a.jpg">>}

Kinds == {"path", "url", "base64", "buffer"}

\* the field a kind reads
FieldOf(kind) ==
  CASE kind = "path" -> "path" [] kind = "url" -> "url" [] kind = "base64" -> "data" [] kind = "buffer" -> "buffer"

ValsOf(kind) ==
  CASE kind = "path" -> PathVals [] kind = "url" -> UrlVals [] kind = "base64" -> DataVals [] kind = "buffer" -> BufferVals

\* ImageSourceType values in which fields the kind does not read are given
\* too: the four fields are optional one by one
MixedSources ==
  {[kind |-> "path", path |-> <<"/img/a.jpg">>, url |-> <<"https://", "example.com", "/image.jpg">>],
   [kind |-> "path", url |-> <<"https://", "example.com", "/image.jpg">>],
   [kind |-> "url", url |-> <<"https://", "example.com", "/image.jpg">>, path |-> <<"/img/a.jpg">>,
    data |-> Str(<<19, 22, 5, 46>>, 0), buffer |-> Str(<<19, 22, 5, 46>>, 0)],
   [kind |-> "base64", data |-> Str(<<19, 22, 5, 46>>, 0), buffer |-> Str(<<>>, MaxBase64Length + 1),
    path |-> <<"/img/a.jpg">>],
   [kind |-> "buffer", buffer |-> Str(<<19, 22, 5, 46>>, 0), data |-> Str(<<>>, MaxBase64Length + 1)]}

\* ImageSourceType values: the kind alone, the kind and its field, and the
\* kind with other fields
Sources ==
  UNION {{[f \in {"kind"} |-> k]} \cup
         {[f \in {"kind", FieldOf(k)} |-> IF f = "kind" THEN k ELSE v] : v \in ValsOf(k)} : k \in Kinds}
  \cup MixedSources

\* a value for each payload field, each one loadable by the kind that reads it
FieldVal(f) ==
  CASE f = "path" -> <<"/img/a.jpg">>
    [] f = "url" -> <<"https://", "example.com", "/image.jpg">>
    [] f = "data" -> Str(JpegHeader \o <<19, 22, 5, 46>>, 0)
    [] f = "buffer" -> Str(<<19, 22>>, 0)

\* every kind with every choice of which of the four fields are given
AllShapes ==
  {[f \in {"kind"} \cup fs |-> IF f = "kind" THEN k ELSE FieldVal(f)] :
     k \in Kinds, fs \in SUBSET {"path", "url", "data", "buffer"}}

\* what loadImage can be handed by a caller that is not type checked
AnySources == Sources \cup AllShapes \cup {[f \in {"kind"} |-> "stream"]}

FullSegments == <<"EXIF", "GPS", "XMP", "ICC", "IPTC", "JFIF", "IHDR">>

SegSeqs(n) == UNION {[1..k -> SegmentTypes] : k \in 0..n}

ToolSegments == {<<>>, <<"EXIF">>, <<"GPS", "XMP">>, FullSegments}

\* the arguments a tool is called with, besides the image
ExtraArgs(name) ==
  CASE name = "read-metadata" -> {<<>>} \cup {[f \in {"segments"} |-> s] : s \in ToolSegments}
    [] name = "read-exif" -> {<<>>, [f \in {"pick"} |-> <<"Make">>], [f \in {"pick"} |-> <<>>]}
    [] name = "read-xmp" -> {<<>>} \cup {[f \in {"extended"} |-> b] : b \in BOOLEAN}
    [] name = "thumbnail" -> {<<>>} \cup {[f \in {"url"} |-> b] : b \in BOOLEAN}
    [] OTHER -> {<<>>}

WithImage(image, extra) ==
  [f \in {"image"} \cup DOMAIN extra |-> IF f = "image" THEN image ELSE extra[f]]

(* --------------------------- environment ------------------------------- *)

Resolve(bytes) == [t |-> "resolve", bytes |-> bytes]

Reject(err) == [t |-> "reject", err |-> err]

\* how fs.promises.readFile(path) can settle
ReadFileOutcomes(path) ==
  {Resolve(x) : x \in FileContents} \cup {Reject(ReadFileError(c, path)) : c \in {"ENOENT", "EACCES"}}

Statuses ==
  {<<200, <<"OK">>>>, <<299, <<>>>>, <<300, <<"Multiple Choices">>>>, <<404, <<"Not Found">>>>,
   <<413, <<"PayloadTooLarge">>>>}

\* how fetch(url) can settle: rejected, or a response; the body matters only when ok
FetchOutcomes ==
  {Reject(Error(<<"fetch failed">>))}
  \cup {[t |-> "response", status |-> st[1], statusText |-> st[2], body |-> x] :
          st \in {q \in Statuses : q[1] \in 200..299}, x \in FileContents}
  \cup {[t |-> "response", status |-> st[1], statusText |-> st[2], body |-> Bytes(<<>>, 0)] :
          st \in {q \in Statuses : q[1] \notin 200..299}}

\* fetch knows the http and https schemes only; any other URL is rejected
FetchOutcomesOf(url) ==
  IF Len(url) > 0 /\ url[1] \in {"http://", "https://"} THEN FetchOutcomes
  ELSE {Reject(Error(<<"fetch failed">>))}

EmptyObj == JObj([k \in {} |-> Undefined])

ParseValues ==
  {Undefined, EmptyObj,
   JObj([Make |-> JStr("X")]),
   JObj([Make |-> JStr("X"), DateTimeOriginal |-> JDate("2020-01-02T03:04:05.000Z")]),
   JObj([xmp |-> JObj([title |-> JStr("t")])]),
   JObj([icc |-> JObj([ProfileVersion |-> JStr("4.3")]), jfif |-> JObj([JFIFVersion |-> JNum(257)])]),
   JObj([iptc |-> JObj([Keywords |-> JStr("k")]), ihdr |-> JObj([ImageWidth |-> JNum(1)])])}

\* the pick lists buildExifOptions is given; "NotATag" is no EXIF tag
PickVals == {<<>>, <<"Make">>, <<"Make", "Model">>, <<"Model", "Make">>, <<"Make", "Make">>, <<"NotATag">>}

\* what the delegated exifr call can return
QueryValues(query) ==
  CASE query = "parse" -> ParseValues
    [] query = "orientation" -> {Undefined, JNum(1), JNum(6)}
    [] query = "rotation" -> {Undefined, JObj([deg |-> JNum(90), dimensionSwapped |-> JBool(TRUE)])}
    [] query = "gps" -> {Undefined, Null, JObj([latitude |-> JNum(37), longitude |-> JNum(-122)])}
    [] query = "thumbnail" -> {Undefined, JBytes(Bytes(<<255, 216>>, 0)), JBytes(Bytes(<<77>>, 0))}

ParserErrors == {Error(<<"Unknown file format">>)}

(* ------------------------------ actions -------------------------------- *)

Init ==
  /\ pc = "idle"
  /\ tool = "none"
  /\ args = None
  /\ io = None
  /\ ioRes = None
  /\ loaded = None
  /\ opts = None
  /\ parserIn = None
  /\ parserRes = None
  /\ response = None
  /\ calls = <<>>

\* loadImage(src) is entered and runs to its first await or to its end
EnterLoad(src) ==
  LET r == LoadBody(src)
  IN /\ calls' = CallsOf(r)
     /\ IF r.t = "await"
        THEN io' = r /\ loaded' = None /\ pc' = "io"
        ELSE io' = None /\ loaded' = LoadCatch(r) /\ pc' = "loaded"

\* a tool's callback is invoked
Invoke ==
  /\ pc = "idle"
  /\ \E name \in Tools, image \in Sources :
       \E extra \in ExtraArgs(name) :
         /\ tool' = name
         /\ args' = WithImage(image, extra)
         /\ EnterLoad(image)
  /\ UNCHANGED <<ioRes, opts, parserIn, parserRes, response>>

\* loadImage is called on its own
CallLoadImage ==
  /\ pc = "idle"
  /\ \E image \in AnySources :
       /\ tool' = "loadImage"
       /\ args' = WithImage(image, <<>>)
       /\ EnterLoad(image)
  /\ UNCHANGED <<ioRes, opts, parserIn, parserRes, response>>

\* buildOptions is called on its own
CallBuildOptions ==
  /\ pc = "idle"
  /\ \E a \in {<<>>} \cup {[f \in {"segments"} |-> s] : s \in SegSeqs(MaxSegments) \cup {FullSegments}} :
       /\ tool' = "buildOptions"
       /\ args' = a
       /\ opts' = buildOptions(Arg(a, "segments"))
  /\ pc' = "done"
  /\ UNCHANGED <<io, ioRes, loaded, parserIn, parserRes, response, calls>>

\* buildExifOptions is called on its own
CallBuildExifOptions ==
  /\ pc = "idle"
  /\ \E a \in {<<>>} \cup {[f \in {"pick"} |-> p] : p \in PickVals} :
       /\ tool' = "buildExifOptions"
       /\ args' = a
       /\ opts' = buildExifOptions(Arg(a, "pick"))
  /\ pc' = "done"
  /\ UNCHANGED <<io, ioRes, loaded, parserIn, parserRes, response, calls>>

\* buildXmpOptions is called on its own
CallBuildXmpOptions ==
  /\ pc = "idle"
  /\ \E a \in {<<>>} \cup {[f \in {"extended"} |-> b] : b \in BOOLEAN} :
       /\ tool' = "buildXmpOptions"
       /\ args' = a
       /\ opts' = buildXmpOptions(Arg(a, "extended"))
  /\ pc' = "done"
  /\ UNCHANGED <<io, ioRes, loaded, parserIn, parserRes, response, calls>>

\* buildSegmentOptions is called on its own
CallBuildSegmentOptions ==
  /\ pc = "idle"
  /\ \E seg \in {"ICC", "IPTC", "JFIF", "IHDR"} :
       /\ tool' = "buildSegmentOptions"
       /\ args' = [segment |-> seg]
       /\ opts' = buildSegmentOptions(seg)
  /\ pc' = "done"
  /\ UNCHANGED <<io, ioRes, loaded, parserIn, parserRes, response, calls>>

\* the awaited fs.promises.readFile settles and loadImage ends
ReadFileDone ==
  /\ pc = "io"
  /\ io.op = "readFile"
  /\ \E out \in ReadFileOutcomes(io.target) :
       /\ ioRes' = out
       /\ loaded' = LoadCatch(LoadResume(io.op, out))
  /\ pc' = "loaded"
  /\ UNCHANGED <<tool, args, io, opts, parserIn, parserRes, response, calls>>

\* the awaited fetch settles and loadImage ends
FetchDone ==
  /\ pc = "io"
  /\ io.op = "fetch"
  /\ \E out \in FetchOutcomesOf(io.target) :
       /\ ioRes' = out
       /\ loaded' = LoadCatch(LoadResume(io.op, out))
  /\ pc' = "loaded"
  /\ UNCHANGED <<tool, args, io, opts, parserIn, parserRes, response, calls>>

\* loadImage called on its own hands its result to the caller
LoadImageReturn ==
  /\ pc = "loaded"
  /\ tool = "loadImage"
  /\ pc' = "done"
  /\ UNCHANGED <<tool, args, io, ioRes, loaded, opts, parserIn, parserRes, response, calls>>

\* await loadImage(image) threw: the handler's catch block answers
LoadFailed ==
  /\ pc = "loaded"
  /\ tool \in Tools
  /\ ~LoadSucceeded(loaded)
  /\ response' = HandlerCatch(tool, loaded.err)
  /\ calls' = Append(calls, "respond")
  /\ pc' = "done"
  /\ UNCHANGED <<tool, args, io, ioRes, loaded, opts, parserIn, parserRes>>

\* the handler builds its options and calls exifr with the loaded bytes
ParserCall ==
  /\ pc = "loaded"
  /\ tool \in Tools
  /\ LoadSucceeded(loaded)
  /\ opts' = OptionsOf(tool, args)
  /\ parserIn' = [query |-> QueryOf(tool), buf |-> BytesOf(loaded), opts |-> opts']
  /\ calls' = Append(calls, "parse")
  /\ pc' = "parsing"
  /\ UNCHANGED <<tool, args, io, ioRes, loaded, parserRes, response>>

\* the exifr call returns a value and the handler answers
ParserReturn ==
  /\ pc = "parsing"
  /\ \E v \in QueryValues(parserIn.query) :
       /\ parserRes' = [t |-> "return", value |-> v]
       /\ response' = HandlerReturn(tool, args, v)
  /\ calls' = Append(calls, "respond")
  /\ pc' = "done"
  /\ UNCHANGED <<tool, args, io, ioRes, loaded, opts, parserIn>>

\* the exifr call throws and the handler's catch block answers
ParserThrow ==
  /\ pc = "parsing"
  /\ \E err \in ParserErrors :
       /\ parserRes' = Throw(err)
       /\ response' = HandlerCatch(tool, err)
  /\ calls' = Append(calls, "respond")
  /\ pc' = "done"
  /\ UNCHANGED <<tool, args, io, ioRes, loaded, opts, parserIn>>

\* the call is over; nothing of it is kept
Finish ==
  /\ pc = "done"
  /\ pc' = "idle"
  /\ tool' = "none"
  /\ args' = None
  /\ io' = None
  /\ ioRes' = None
  /\ loaded' = None
  /\ opts' = None
  /\ parserIn' = None
  /\ parserRes' = None
  /\ response' = None
  /\ calls' = <<>>

Next ==
  \/ Invoke
  \/ CallLoadImage
  \/ CallBuildOptions
  \/ CallBuildExifOptions
  \/ CallBuildXmpOptions
  \/ CallBuildSegmentOptions
  \/ ReadFileDone
  \/ FetchDone
  \/ LoadImageReturn
  \/ LoadFailed
  \/ ParserCall
  \/ ParserReturn
  \/ ParserThrow
  \/ Finish

Spec == Init /\ [][Next]_vars

(* ----------------------- invocations in flight ------------------------- *)
(* Several callbacks of registerTools suspended at once.  Every variable   *)
(* holds one cell per invocation: the locals of an async callback and of   *)
(* the loadImage call it awaits live in that call's own closure.           *)

Slots == 1..MaxInFlight

\* the tools, descriptors and environment answers of the interleaved runs
ParTools == {"read-xmp", "gps-coordinates"}

ParSources ==
  {[kind |-> "path", path |-> <<"/img/a.jpg">>],
   [kind |-> "url", url |-> <<"https://", "example.com", "/image.jpg">>],
   [kind |-> "base64", data |-> ToBase64(Bytes(<<255, 216>>, 0))]}

ParIoOutcomes(op, target) ==
  IF op = "readFile"
  THEN {Resolve(Bytes(<<77>>, 0)), Resolve(Bytes(<<255, 216, 255>>, 0)), Reject(ReadFileError("ENOENT", target))}
  ELSE {[t |-> "response", status |-> 200, statusText |-> <<"OK">>, body |-> Bytes(<<77>>, 0)],
        [t |-> "response", status |-> 404, statusText |-> <<"Not Found">>, body |-> Bytes(<<>>, 0)]}

ParQueryValues(query) ==
  IF query = "parse" THEN {EmptyObj, JObj([xmp |-> JObj([title |-> JStr("t")])])}
  ELSE {Null, JObj([latitude |-> JNum(37), longitude |-> JNum(-122)])}

BufOfFirst(all, i) == BytesOf(all[1])

\* `buf` of invocation i: a const of its own callback
BufOf(all, i) == BytesOf(all[i])

InitPar ==
  /\ pc = [i \in Slots |-> "idle"]
  /\ tool = [i \in Slots |-> "none"]
  /\ args = [i \in Slots |-> None]
  /\ io = [i \in Slots |-> None]
  /\ ioRes = [i \in Slots |-> None]
  /\ loaded = [i \in Slots |-> None]
  /\ opts = [i \in Slots |-> None]
  /\ parserIn = [i \in Slots |-> None]
  /\ parserRes = [i \in Slots |-> None]
  /\ response = [i \in Slots |-> None]
  /\ calls = [i \in Slots |-> <<>>]

\* a callback is invoked while others may be suspended
ParInvoke(i) ==
  /\ pc[i] = "idle"
  /\ \E name \in ParTools, image \in ParSources :
       LET r == LoadBody(image)
       IN /\ tool' = [tool EXCEPT ![i] = name]
          /\ args' = [args EXCEPT ![i] = WithImage(image, <<>>)]
          /\ calls' = [calls EXCEPT ![i] = CallsOf(r)]
          /\ IF r.t = "await"
             THEN io' = [io EXCEPT ![i] = r] /\ loaded' = loaded /\ pc' = [pc EXCEPT ![i] = "io"]
             ELSE io' = io /\ loaded' = [loaded EXCEPT ![i] = LoadCatch(r)]
                  /\ pc' = [pc EXCEPT ![i] = "loaded"]
  /\ UNCHANGED <<ioRes, opts, parserIn, parserRes, response>>

\* the readFile or fetch awaited by invocation i settles
ParIoDone(i) ==
  /\ pc[i] = "io"
  /\ \E out \in ParIoOutcomes(io[i].op, io[i].target) :
       /\ ioRes' = [ioRes EXCEPT ![i] = out]
       /\ loaded' = [loaded EXCEPT ![i] = LoadCatch(LoadResume(io[i].op, out))]
  /\ pc' = [pc EXCEPT ![i] = "loaded"]
  /\ UNCHANGED <<tool, args, io, opts, parserIn, parserRes, response, calls>>

ParLoadFailed(i) ==
  /\ pc[i] = "loaded"
  /\ ~LoadSucceeded(loaded[i])
  /\ response' = [response EXCEPT ![i] = HandlerCatch(tool[i], loaded[i].err)]
  /\ calls' = [calls EXCEPT ![i] = Append(calls[i], "respond")]
  /\ pc' = [pc EXCEPT ![i] = "done"]
  /\ UNCHANGED <<tool, args, io, ioRes, loaded, opts, parserIn, parserRes>>

ParParserCall(i) ==
  /\ pc[i] = "loaded"
  /\ LoadSucceeded(loaded[i])
  /\ opts' = [opts EXCEPT ![i] = OptionsOf(tool[i], args[i])]
  /\ parserIn' = [parserIn EXCEPT ![i] =
                    [query |-> QueryOf(tool[i]), buf |-> BufOf(loaded, i), opts |-> opts'[i]]]
  /\ calls' = [calls EXCEPT ![i] = Append(calls[i], "parse")]
  /\ pc' = [pc EXCEPT ![i] = "parsing"]
  /\ UNCHANGED <<tool, args, io, ioRes, loaded, parserRes, response>>

ParParserReturn(i) ==
  /\ pc[i] = "parsing"
  /\ \E v \in ParQueryValues(parserIn[i].query) :
       /\ parserRes' = [parserRes EXCEPT ![i] = [t |-> "return", value |-> v]]
       /\ response' = [response EXCEPT ![i] = HandlerReturn(tool[i], args[i], v)]
  /\ calls' = [calls EXCEPT ![i] = Append(calls[i], "respond")]
  /\ pc' = [pc EXCEPT ![i] = "done"]
  /\ UNCHANGED <<tool, args, io, ioRes, loaded, opts, parserIn>>

ParParserThrow(i) ==
  /\ pc[i] = "parsing"
  /\ \E err \in ParserErrors :
       /\ parserRes' = [parserRes EXCEPT ![i] = Throw(err)]
       /\ response' = [response EXCEPT ![i] = HandlerCatch(tool[i], err)]
  /\ calls' = [calls EXCEPT ![i] = Append(calls[i], "respond")]
  /\ pc' = [pc EXCEPT ![i] = "done"]
  /\ UNCHANGED <<tool, args, io, ioRes, loaded, opts, parserIn>>

\* invocation i is over; its cell is free for the next one
ParFinish(i) ==
  /\ pc[i] = "done"
  /\ pc' = [pc EXCEPT ![i] = "idle"]
  /\ tool' = [tool EXCEPT ![i] = "none"]
  /\ args' = [args EXCEPT ![i] = None]
  /\ io' = [io EXCEPT ![i] = None]
  /\ ioRes' = [ioRes EXCEPT ![i] = None]
  /\ loaded' = [loaded EXCEPT ![i] = None]
  /\ opts' = [opts EXCEPT ![i] = None]
  /\ parserIn' = [parserIn EXCEPT ![i] = None]
  /\ parserRes' = [parserRes EXCEPT ![i] = None]
  /\ response' = [response EXCEPT ![i] = None]
  /\ calls' = [calls EXCEPT ![i] = <<>>]

NextPar ==
  \E i \in Slots :
    \/ ParInvoke(i)
    \/ ParIoDone(i)
    \/ ParLoadFailed(i)
    \/ ParParserCall(i)
    \/ ParParserReturn(i)
    \/ ParParserThrow(i)
    \/ ParFinish(i)

SpecPar == InitPar /\ [][NextPar]_vars

(* ------------------------------ claims --------------------------------- *)

\* the descriptor loadImage was given
Src == args.image

LoadEnded == loaded # None

Contains(msg, tok) == \E i \in 1..Len(msg) : msg[i] = tok

LoadPrefix == "Failed to load image: "

TooLargeTag == "PayloadTooLarge"

\* a base64 descriptor whose data is longer than the limit
Oversized == Src.kind = "base64" /\ Has(Src, "data") /\ StrLen(Src.data) > MaxBase64Length

\* the message carries the tag where loadImage writes it: right after the prefix
TaggedTooLarge(msg) == Len(msg) >= 2 /\ msg[1] = LoadPrefix /\ msg[2] = TooLargeTag

\* C1 as stated: 40,000,000 characters of base64 are decoded, one more fails
\* with a message containing 'PayloadTooLarge', and no other load failure has
\* a message containing it.
C1_Original ==
  LoadEnded =>
    /\ (Src.kind = "base64" /\ Has(Src, "data") /\ StrLen(Src.data) = MaxBase64Length
          => loaded.t = "return")
    /\ (Oversized => loaded.t = "throw" /\ Contains(loaded.err.msg, TooLargeTag))
    /\ (loaded.t = "throw" /\ ~Oversized => ~Contains(loaded.err.msg, TooLargeTag))

\* C1 amended: 40,000,000 characters of base64 are decoded (40,000,000 'A's
\* to 30,000,000 zero bytes), one more fails with the message 'Failed to load
\* image: PayloadTooLarge: ...', and no other load failure has a message that
\* starts with 'Failed to load image: PayloadTooLarge' (a message that echoes
\* a path or a status text may contain the word further on).
C1_PayloadTooLarge ==
  LoadEnded =>
    /\ (Src.kind = "base64" /\ Has(Src, "data") /\ StrLen(Src.data) = MaxBase64Length
          => loaded.t = "return")
    /\ (Src.kind = "base64" /\ Has(Src, "data") /\ Src.data = Str(<<>>, MaxBase64Length)
          => loaded = Return(Bytes(<<>>, 3 * (MaxBase64Length \div 4))))
    /\ (Oversized => loaded.t = "throw" /\ TaggedTooLarge(loaded.err.msg))
    /\ (loaded.t = "throw" /\ ~Oversized => ~TaggedTooLarge(loaded.err.msg))

C1_Witness ==
  /\ LoadEnded
  /\ Src.kind = "base64" /\ Has(Src, "data") /\ StrLen(Src.data) = MaxBase64Length
  /\ StartsWith(Src.data.s, DataPrefix)
  /\ loaded.t = "return"

\* C2 as stated: an inline string (data of kind base64, buffer of kind buffer)
\* longer than 40,000,000 characters never yields bytes; loadImage fails.
C2_InlineLimit ==
  LoadEnded =>
    /\ (Oversized => loaded.t = "throw")
    /\ (Src.kind = "buffer" /\ Has(Src, "buffer") /\ StrLen(Src.buffer) > MaxBase64Length
          => loaded.t = "throw")

\* what the try block of loadImage ended with, before the catch block
RawOutcome == IF io = None THEN LoadBody(Src) ELSE LoadResume(io.op, ioRes)

\* C3: every failure of loadImage is an Error whose message is 'Failed to load
\* image: ' followed by the message of the error raised inside, unchanged;
\* for a rejected readFile or fetch that is the message of the rejection.
C3_LoadFailureWrapped ==
  LoadEnded =>
    /\ (loaded.t = "throw" <=> RawOutcome.t = "throw")
    /\ (loaded.t = "throw" =>
          /\ loaded.err.isError
          /\ loaded.err.msg = <<LoadPrefix>> \o RawOutcome.err.msg)
    /\ (ioRes # None /\ ioRes.t = "reject" =>
          loaded = Throw(Error(<<LoadPrefix>> \o ioRes.err.msg)))
    /\ (Has(Src, "kind") /\ Src.kind = "stream" =>
          loaded.err.msg = <<LoadPrefix, "Unsupported image source kind: ", "stream">>)

C3_Witness ==
  /\ LoadEnded
  /\ io # None /\ io.op = "readFile"
  /\ ioRes.t = "reject"
  /\ loaded.t = "throw"
  /\ loaded.err.msg[2] = "EACCES"

(* responses *)

Answered == pc = "done" /\ tool \in Tools

TextOf(r) == r.content[1].text

\* a success response: one text item and no isError key
IsSuccess(r) ==
  /\ DOMAIN r = {"content"}
  /\ Len(r.content) = 1
  /\ r.content[1].type = "text"
  /\ TextOf(r).t = "json"

\* an error response: one text item holding a message, and isError = true
IsError(r) ==
  /\ DOMAIN r = {"content", "isError"}
  /\ r.isError = TRUE
  /\ Len(r.content) = 1
  /\ r.content[1].type = "text"
  /\ TextOf(r).t = "message"

ParserReturned == parserRes # None /\ parserRes.t = "return"

ParserThrew == parserRes # None /\ parserRes.t = "throw"

\* the whole payload a tool owes for the value v its exifr call returned
CompletePayload(name, a, v) ==
  CASE name \in ParseTools \cup {"rotation-info"} -> v
    [] name = "orientation" -> JObj([orientation |-> v])
    [] name = "gps-coordinates" -> IF v \in {Undefined, Null} THEN Null ELSE v
    [] name = "thumbnail" ->
         IF Has(a, "url") /\ a.url
         THEN JObj([base64 |-> JChars(ToBase64(v.bytes))])
         ELSE JObj([dataUrl |-> JChars(Str(JpegHeader \o ToBase64(v.bytes).s, 0))])

\* C4: whatever loading and parsing ended with, a handler does not throw: it
\* answers with a success response holding the JSON text of the complete
\* payload, or with an error response holding a message; a load error and a
\* parser error always give the error response, and there is no answer
\* before the handler is done.
C4_TwoShapes ==
  /\ (tool \in Tools /\ pc # "done" => response = None)
  /\ (Answered =>
        /\ ~Has(response, "thrown")
        /\ IsSuccess(response) \/ IsError(response)
        /\ (IsSuccess(response) =>
              /\ ParserReturned
              /\ TextOf(response) = JSONStringify(CompletePayload(tool, args, parserRes.value)))
        /\ (loaded.t = "throw" \/ ParserThrew => IsError(response)))

C4_Witness ==
  /\ Answered
  /\ ParserThrew
  /\ IsError(response)

\* the delegated call found nothing of what the tool asks for
NothingThere(name, v) ==
  \/ v = Undefined
  \/ name = "gps-coordinates" /\ v = Null
  \/ name \in {"read-metadata", "read-exif"} /\ v.t = "object" /\ DOMAIN v.o = {}
  \/ name = "read-xmp" /\ v.t = "object" /\ "xmp" \notin DOMAIN v.o
  \/ name \in SegmentTools /\ v.t = "object" /\ ToLowerCase(SegmentOf(name)) \notin DOMAIN v.o

\* the message reads 'No ... found ...'
SaysNoneFound(r) ==
  LET m == TextOf(r).msg IN Len(m) >= 2 /\ m[1] = "No " /\ Contains(m, " found")

\* C5 as stated: for each of the eleven tools, an empty or absent result of
\* a successful parser call (undefined, null for the GPS query, an object with
\* no keys, an object without the key of the segment asked for) gives an error response with a 'No ... found'
\* message, never a success response.
C5_Original ==
  Answered /\ ParserReturned /\ NothingThere(tool, parserRes.value)
    => IsError(response) /\ SaysNoneFound(response)

\* C5 amended: that holds for the ten tools other than gps-coordinates;
\* gps-coordinates answers an absent result with a success response.
C5_NothingFound ==
  Answered /\ ParserReturned /\ NothingThere(tool, parserRes.value)
    => IF tool = "gps-coordinates" THEN IsSuccess(response)
       ELSE IsError(response) /\ SaysNoneFound(response)

C5_Witness ==
  /\ Answered /\ ParserReturned
  /\ tool = "read-exif"
  /\ parserRes.value = EmptyObj
  /\ IsError(response) /\ SaysNoneFound(response)

\* C6: gps-coordinates answers a null or absent GPS result with a response
\* that is no error and whose text parses as JSON null, and a coordinate
\* record with a response whose parsed text equals the record.
C6_GpsNull ==
  Answered /\ ParserReturned /\ tool = "gps-coordinates"
    => /\ ~Has(response, "isError")
       /\ (parserRes.value \in {Undefined, Null} => JSONParse(TextOf(response)) = Null)
       /\ (parserRes.value.t = "object" => JSONParse(TextOf(response)) = parserRes.value)

C6_Witness ==
  /\ Answered /\ ParserReturned /\ tool = "gps-coordinates"
  /\ parserRes.value = Null
  /\ IsSuccess(response)
  /\ JSONParse(TextOf(response)) = Null

\* C7 as stated: read-metadata answers an absent or key-less result with an
\* error containing 'No metadata found', and any object with a key with a
\* success response whose text parses to a value equal to the parser's result.
C7_Original ==
  Answered /\ ParserReturned /\ tool = "read-metadata"
    => LET v == parserRes.value
       IN IF v.t = "object" /\ DOMAIN v.o # {}
          THEN IsSuccess(response) /\ JSONParse(TextOf(response)) = v
          ELSE IsError(response) /\ SubSeq(TextOf(response).msg, 1, 3) = <<"No ", "metadata", " found">>

RECURSIVE JsonOnly(_)
\* v holds only what JSON can write: no Date, no undefined, at any depth
JsonOnly(v) ==
  /\ v.t \notin {"date", "undefined", "bytes"}
  /\ (v.t = "object" => \A k \in DOMAIN v.o : JsonOnly(v.o[k]))

\* C7 amended: the parsed text has the keys of the parser's result, equals it
\* where the result holds JSON values only, and holds the ISO string of a Date
\* in the place of the Date.
C7_ReadMetadata ==
  Answered /\ ParserReturned /\ tool = "read-metadata"
    => LET v == parserRes.value
           parsed == JSONParse(TextOf(response))
       IN IF v.t = "object" /\ DOMAIN v.o # {}
          THEN /\ IsSuccess(response)
               /\ parsed.t = "object"
               /\ DOMAIN parsed.o = DOMAIN v.o
               /\ \A k \in DOMAIN v.o :
                    /\ (JsonOnly(v.o[k]) => parsed.o[k] = v.o[k])
                    /\ (v.o[k].t = "date" => parsed.o[k] = JStr(v.o[k].iso))
          ELSE IsError(response) /\ SubSeq(TextOf(response).msg, 1, 3) = <<"No ", "metadata", " found">>

C7_Witness ==
  /\ Answered /\ ParserReturned /\ tool = "read-metadata"
  /\ parserRes.value.t = "object"
  /\ \E k \in DOMAIN parserRes.value.o : parserRes.value.o[k].t = "date"
  /\ IsSuccess(response)

RawForms == {<<ToBase64(b), b>> : b \in InlineBytes}

\* 'data:<mime>;base64,' + base64(b) with b, for every inline b
UriForms == {<<DataUri(h, b), b>> : h \in {JpegHeader, BareHeader}, b \in InlineBytes}

\* C9: loadImage returns exactly b for base64(b) given as data, for a data
\* URI of base64(b) given as data and for base64(b) given as buffer, for every
\* non-empty b; and for a path and for a file:// URL it returns exactly the
\* bytes read from the file that the path, or the decoded URL, names.
C9_RoundTrip ==
  LoadEnded =>
    /\ (Src.kind = "base64" /\ Has(Src, "data")
          => \A f \in RawForms \cup UriForms : Src.data = f[1] => loaded = Return(f[2]))
    /\ (Src.kind = "buffer" /\ Has(Src, "buffer")
          => \A f \in RawForms : Src.buffer = f[1] => loaded = Return(f[2]))
    /\ (io # None /\ io.op = "readFile" /\ ioRes.t = "resolve"
          => /\ loaded = Return(ioRes.bytes)
             /\ (Src.kind = "path" => io.target = Src.path)
             /\ (Src.kind = "url" /\ Src.url = <<"file://", "", "/img/a", "%20", "b.jpg">>
                   => io.target = <<"/img/a", " ", "b.jpg">>))

C9_Witness ==
  /\ LoadEnded
  /\ Src.kind = "base64" /\ Has(Src, "data")
  /\ Src.data = DataUri(JpegHeader, Bytes(<<255, 77>>, 0))
  /\ loaded = Return(Bytes(<<255, 77>>, 0))

\* C10: buildOptions gives all six flags true, and nothing else, for a
\* request that is undefined or empty, and the same record for the full list
\* of the seven segments.
C10_BuildOptionsAll ==
  tool \in {"buildOptions", "read-metadata"} /\ opts # None
    => (~Has(args, "segments") \/ args.segments \in {<<>>, FullSegments}
          => opts = [tiff |-> TRUE, xmp |-> TRUE, icc |-> TRUE, iptc |-> TRUE, jfif |-> TRUE, ihdr |-> TRUE])

C10_Witness ==
  /\ tool = "buildOptions"
  /\ Has(args, "segments") /\ args.segments = <<>>
  /\ opts = AllFlags(TRUE)

\* a call of buildOptions, direct or by read-metadata, with a list given
OptionsBuilt == tool \in {"buildOptions", "read-metadata"} /\ opts # None /\ Has(args, "segments")

Requested(seg) == \E i \in 1..Len(args.segments) : args.segments[i] = seg

\* the requested list with EXIF and GPS exchanged
ExifForGps ==
  [i \in 1..Len(args.segments) |->
     IF args.segments[i] = "EXIF" THEN "GPS"
     ELSE IF args.segments[i] = "GPS" THEN "EXIF" ELSE args.segments[i]]

\* C11: for a non-empty requested list buildOptions returns exactly the six
\* flags, tiff true iff EXIF or GPS is requested and each of xmp, icc, iptc,
\* jfif, ihdr true iff its own category is requested; exchanging EXIF and
\* GPS, or adding one to a list holding the other, gives the same record.
C11_FlagPerCategory ==
  OptionsBuilt /\ args.segments # <<>>
    => /\ DOMAIN opts = {"tiff", "xmp", "icc", "iptc", "jfif", "ihdr"}
       /\ opts.tiff = (Requested("EXIF") \/ Requested("GPS"))
       /\ opts.xmp = Requested("XMP")
       /\ opts.icc = Requested("ICC")
       /\ opts.iptc = Requested("IPTC")
       /\ opts.jfif = Requested("JFIF")
       /\ opts.ihdr = Requested("IHDR")
       /\ buildOptions(Some(ExifForGps)) = opts
       /\ Requested("EXIF") => buildOptions(Some(Append(args.segments, "GPS"))) = opts
       /\ Requested("GPS") => buildOptions(Some(Append(args.segments, "EXIF"))) = opts

C11_Witness ==
  /\ tool = "buildOptions"
  /\ Has(args, "segments") /\ args.segments = <<"GPS", "ICC">>
  /\ opts = [tiff |-> TRUE, xmp |-> FALSE, icc |-> TRUE, iptc |-> FALSE, jfif |-> FALSE, ihdr |-> FALSE]

\* the categories of a list
CategoriesOf(segments) == {segments[i] : i \in 1..Len(segments)}

\* C12: buildOptions depends only on the set of requested categories: every
\* list with the same categories, in any order and with any repetition,
\* gives the record this call gave.
C12_SetOfCategories ==
  OptionsBuilt
    => \A other \in SegSeqs(MaxSegments) \cup {FullSegments} :
         CategoriesOf(other) = CategoriesOf(args.segments) => buildOptions(Some(other)) = opts

C12_Witness ==
  /\ tool = "buildOptions"
  /\ Has(args, "segments") /\ args.segments = <<"XMP", "EXIF">>
  /\ opts = buildOptions(Some(<<"EXIF", "XMP">>))
  /\ buildOptions(Some(<<"EXIF", "EXIF">>)) = buildOptions(Some(<<"EXIF">>))

\* C13: buildExifOptions gives tiff true and the other five flags false; with
\* a pick list given the record has a pick field holding that very list,
\* and with none given it has the six flags and no pick field.
C13_ExifPreset ==
  tool \in {"buildExifOptions", "read-exif"} /\ opts # None
    => /\ opts.tiff /\ ~opts.xmp /\ ~opts.icc /\ ~opts.iptc /\ ~opts.jfif /\ ~opts.ihdr
       /\ IF Has(args, "pick")
          THEN /\ DOMAIN opts = {"tiff", "xmp", "icc", "iptc", "jfif", "ihdr", "pick"}
               /\ opts.pick = args.pick
          ELSE DOMAIN opts = {"tiff", "xmp", "icc", "iptc", "jfif", "ihdr"}

C13_Witness ==
  /\ tool = "buildExifOptions"
  /\ Has(args, "pick") /\ args.pick = <<"Model", "Make">>
  /\ Has(opts, "pick") /\ opts.pick = <<"Model", "Make">>

\* C14: buildXmpOptions gives xmp true and the other five flags false, and
\* multiSegment is the boolean given, false when none is given.
C14_XmpPreset ==
  tool \in {"buildXmpOptions", "read-xmp"} /\ opts # None
    => /\ DOMAIN opts = {"tiff", "xmp", "icc", "iptc", "jfif", "ihdr", "multiSegment"}
       /\ opts.xmp /\ ~opts.tiff /\ ~opts.icc /\ ~opts.iptc /\ ~opts.jfif /\ ~opts.ihdr
       /\ opts.multiSegment = (Has(args, "extended") /\ args.extended)

C14_Witness ==
  /\ tool = "buildXmpOptions"
  /\ ~Has(args, "extended")
  /\ Has(opts, "multiSegment") /\ ~opts.multiSegment

\* C15: for each of ICC, IPTC, JFIF and IHDR buildSegmentOptions gives the
\* six flags with the flag of that segment true and the other five false.
C15_SegmentPreset ==
  tool = "buildSegmentOptions"
    => /\ DOMAIN opts = {"tiff", "xmp", "icc", "iptc", "jfif", "ihdr"}
       /\ {f \in DOMAIN opts : opts[f]}
            = {CASE args.segment = "ICC" -> "icc" [] args.segment = "IPTC" -> "iptc"
                 [] args.segment = "JFIF" -> "jfif" [] args.segment = "IHDR" -> "ihdr"}

C15_Witness ==
  /\ tool = "buildSegmentOptions"
  /\ args.segment = "JFIF"
  /\ opts = [tiff |-> FALSE, xmp |-> FALSE, icc |-> FALSE, iptc |-> FALSE, jfif |-> TRUE, ihdr |-> FALSE]

\* the parser has been called in this invocation
ParserCalled == tool \in Tools /\ parserIn # None

\* C16: a parse-based tool hands the parser the bytes loadImage returned and
\* the options of its own preset: buildOptions(segments) for read-metadata,
\* buildExifOptions(pick) for read-exif, buildXmpOptions(extended) for
\* read-xmp and buildSegmentOptions of its own segment for read-icc,
\* read-iptc, read-jfif and read-ihdr.
C16_OwnPreset ==
  ParserCalled /\ tool \in ParseTools
    => /\ parserIn.query = "parse"
       /\ loaded.t = "return" /\ parserIn.buf = loaded.bytes
       /\ tool = "read-metadata" => parserIn.opts = buildOptions(Arg(args, "segments"))
       /\ tool = "read-exif" => parserIn.opts = buildExifOptions(Arg(args, "pick"))
       /\ tool = "read-xmp" => parserIn.opts = buildXmpOptions(Arg(args, "extended"))
       /\ tool = "read-icc" => parserIn.opts = buildSegmentOptions("ICC")
       /\ tool = "read-iptc" => parserIn.opts = buildSegmentOptions("IPTC")
       /\ tool = "read-jfif" => parserIn.opts = buildSegmentOptions("JFIF")
       /\ tool = "read-ihdr" => parserIn.opts = buildSegmentOptions("IHDR")

C16_Witness ==
  /\ ParserCalled /\ tool = "read-iptc"
  /\ Src.kind = "path"
  /\ parserIn.buf = Bytes(<<255, 216, 255>>, 0)
  /\ parserIn.opts = [tiff |-> FALSE, xmp |-> FALSE, icc |-> FALSE, iptc |-> TRUE, jfif |-> FALSE, ihdr |-> FALSE]

\* loadImage has been entered, by a tool or on its own
Loading == tool \in Tools \cup {"loadImage"}

\* how often the call c was made in this invocation
Count(c) == Cardinality({i \in 1..Len(calls) : calls[i] = c})

\* a url descriptor whose URL begins with file:// / with anything else
FileUrlGiven == Loading /\ Src.kind = "url" /\ Has(Src, "url") /\ Src.url # <<>> /\ Src.url[1] = "file://"

OtherUrlGiven == Loading /\ Src.kind = "url" /\ Has(Src, "url") /\ Src.url # <<>> /\ Src.url[1] # "file://"

\* the descriptor of kind path that names the file of a file URL
AsPath(url) == [kind |-> "path", path |-> FileURLToPath(url).path]

\* the other kinds and the other URLs of C17, as the claim and its amendment share them
C17_Rest ==
  /\ OtherUrlGiven => calls # <<>> /\ calls[1] = "fetch" /\ io.target = Src.url
                        /\ Count("fetch") = 1 /\ Count("readFile") = 0
  /\ Loading /\ Src.kind \in {"path", "base64", "buffer"} => Count("fetch") = 0

\* C17 as stated: every file:// URL is converted to a path and read as kind
\* path would read it, without a fetch; any other URL is fetched once and
\* never read; the kinds path, base64 and buffer never fetch.
C17_Original ==
  /\ FileUrlGiven => Count("fetch") = 0 /\ Count("readFile") = 1
  /\ C17_Rest

\* C17, amended: a URL beginning with lower-case file:// never causes a
\* fetch; when fileURLToPath accepts it, the path it gives is read once,
\* exactly as kind path reads that path, and when fileURLToPath rejects it
\* (a host that is not local, an encoded slash) loadImage fails with that
\* error as a load failure and reads nothing.  Any other URL is fetched once
\* and never read; the kinds path, base64 and buffer never fetch.
C17_UrlRouting ==
  /\ FileUrlGiven =>
        /\ Count("fetch") = 0
        /\ IF FileURLToPath(Src.url).t = "path"
           THEN /\ Count("readFile") = 1
                /\ io = LoadBody(AsPath(Src.url))
                /\ LoadEnded => loaded = LoadCatch(LoadResume("readFile", ioRes))
           ELSE /\ Count("readFile") = 0
                /\ loaded = Throw(Error(<<"Failed to load image: ">> \o FileURLToPath(Src.url).err.msg))
  /\ C17_Rest

C17_Witness ==
  /\ FileUrlGiven
  /\ Src.url = <<"file://", "", "/img/a", "%20", "b.jpg">>
  /\ calls = <<"readFile">>
  /\ io = Await("readFile", <<"/img/a", " ", "b.jpg">>)
  /\ loaded = Return(Bytes(<<255, 216, 255>>, 0))

\* the field the kind of the descriptor requires is absent or the empty string
FieldMissing ==
  /\ Loading
  /\ \/ Src.kind = "path" /\ (Has(Src, "path") => Src.path = <<>>)
     \/ Src.kind = "url" /\ (Has(Src, "url") => Src.url = <<>>)
     \/ Src.kind = "base64" /\ (Has(Src, "data") => Src.data = Str(<<>>, 0))
     \/ Src.kind = "buffer" /\ (Has(Src, "buffer") => Src.buffer = Str(<<>>, 0))

\* C18: when the field its kind requires is absent or empty, loadImage
\* fails with the load-failure message that names the field and the kind,
\* and has read no file, fetched nothing and decoded nothing.
C18_RequiredField ==
  FieldMissing
    => /\ loaded = Throw(Error(<<"Failed to load image: ",
                      CASE Src.kind = "path" -> "Path is required for kind=\"path\""
                        [] Src.kind = "url" -> "URL is required for kind=\"url\""
                        [] Src.kind = "base64" -> "Data is required for kind=\"base64\""
                        [] Src.kind = "buffer" -> "Buffer is required for kind=\"buffer\"">>))
       /\ io = None /\ ioRes = None
       /\ Count("readFile") = 0 /\ Count("fetch") = 0 /\ Count("decode") = 0

C18_Witness ==
  /\ tool = "loadImage" /\ pc = "done"
  /\ Src.kind = "url" /\ Has(Src, "url") /\ Src.url = <<>>
  /\ loaded = Throw(Error(<<"Failed to load image: ", "URL is required for kind=\"url\"">>))
  /\ calls = <<>>

\* the message of the error the handler caught: the parser's, or else loadImage's
CaughtMessage == IF ParserThrew THEN parserRes.err.msg ELSE loaded.err.msg

\* C19: when the delegated exifr call throws, the answer is an error response
\* whose text is the prefix of the tool's operation followed by the parser's
\* message as it was thrown; when loadImage throws, the text is the same
\* prefix followed by the 'Failed to load image: ...' message as thrown.
C19_MessagePassedThrough ==
  Answered /\ (ParserThrew \/ loaded.t = "throw")
    => /\ IsError(response)
       /\ TextOf(response).msg = ErrorPrefix(tool) \o CaughtMessage
       /\ tool = "read-metadata" => TextOf(response).msg[1] = "Error reading metadata: "
       /\ tool = "thumbnail" => TextOf(response).msg[1] = "Error extracting thumbnail: "
       /\ ParserThrew => loaded.t = "return" /\ parserRes.err \in ParserErrors
       /\ ~ParserThrew => TextOf(response).msg[Len(ErrorPrefix(tool)) + 1] = "Failed to load image: "

C19_Witness ==
  /\ Answered /\ ParserThrew
  /\ tool = "read-jfif"
  /\ TextOf(response) = Message(<<"Error reading ", "JFIF", " data: ", "Unknown file format">>)

\* the step of the handler that comes next, whatever the environment answers
HandlerStep == ReadFileDone \/ FetchDone \/ LoadFailed \/ ParserCall \/ ParserReturn \/ ParserThrow

\* C20: in a tool invocation the calls made are, in this order, at most one
\* load call (file read, fetch or decoding), at most one parser call and at
\* most one response; the parser is called only when loadImage returned
\* bytes; after a failed load or a failed parser call nothing but the
\* response follows; an invocation that is over has given exactly one
\* response and one that is not over can still take its next step.
C20_SingleAttempt ==
  tool \in Tools
    => /\ \E l \in {<<>>, <<"readFile">>, <<"fetch">>, <<"decode">>}, p \in {<<>>, <<"parse">>},
             r \in {<<>>, <<"respond">>} : calls = l \o p \o r
       /\ Count("parse") = 1 <=> parserIn # None
       /\ Count("parse") = 1 => loaded # None /\ loaded.t = "return" /\ parserIn.buf = loaded.bytes
       /\ loaded # None /\ loaded.t = "throw" => Count("parse") = 0
       /\ ioRes # None /\ ioRes.t = "reject" => calls \in {<<io.op>>, <<io.op, "respond">>}
       /\ ParserThrew => calls[Len(calls)] \in {"parse", "respond"} /\ Count("parse") = 1
       /\ Count("respond") = 1 <=> response # None
       /\ pc = "done" <=> Count("respond") = 1
       /\ pc # "done" => ENABLED HandlerStep

C20_Witness ==
  /\ Answered
  /\ calls = <<"fetch", "parse", "respond">>
  /\ ParserThrew

\* what loadImage gives for the descriptor src when its awaited call, if it
\* makes one, settles as out, in a run of its own
AloneLoaded(src, out) ==
  LET r == LoadBody(src)
  IN IF r.t = "await" THEN LoadCatch(LoadResume(r.op, out)) ELSE LoadCatch(r)

\* the response of the tool run alone with the arguments a, the I/O outcome
\* out and the parser outcome res
AloneResponse(name, a, out, res) ==
  LET l == AloneLoaded(a.image, out)
  IN IF l.t = "throw" THEN HandlerCatch(name, l.err)
     ELSE IF res.t = "throw" THEN HandlerCatch(name, res.err)
     ELSE HandlerReturn(name, a, res.value)

\* C21: with several invocations in flight, interleaved in any way at their
\* suspension points, each invocation hands the parser the bytes of its own
\* load and the options of its own arguments, and answers what it would
\* answer run alone with the same arguments, I/O outcome and parser outcome;
\* an invocation that has not started holds nothing of another.
C21_Independent ==
  \A i \in Slots :
    /\ pc[i] = "idle" =>
          /\ tool[i] = "none" /\ args[i] = None /\ loaded[i] = None
          /\ parserIn[i] = None /\ response[i] = None /\ calls[i] = <<>>
    /\ pc[i] # "idle" => tool[i] \in Tools
    /\ loaded[i] # None => loaded[i] = AloneLoaded(args[i].image, ioRes[i])
    /\ parserIn[i] # None =>
          /\ loaded[i].t = "return"
          /\ parserIn[i] = [query |-> QueryOf(tool[i]), buf |-> loaded[i].bytes,
                            opts |-> OptionsOf(tool[i], args[i])]
          /\ opts[i] = parserIn[i].opts
    /\ response[i] # None =>
          response[i] = AloneResponse(tool[i], args[i], ioRes[i], parserRes[i])
    /\ pc[i] = "done" <=> response[i] # None

\* two invocations of different tools on different images overlap: the
\* second one started and loaded while the first was suspended, and the
\* first has answered from its own bytes while the second is at the parser
C21_Witness ==
  /\ pc[1] = "done" /\ pc[2] = "parsing"
  /\ tool[1] = "gps-coordinates" /\ tool[2] = "read-xmp"
  /\ args[1].image.kind = "path" /\ args[2].image.kind = "url"
  /\ parserIn[1] # None /\ parserIn[2] # None
  /\ parserIn[1].buf = Bytes(<<255, 216, 255>>, 0) /\ parserIn[2].buf = Bytes(<<77>>, 0)
  /\ response[1] = createSuccessResponse(JObj([latitude |-> JNum(37), longitude |-> JNum(-122)]))

\* everything of x after its first comma, to the end of the string
AfterFirstComma(x) ==
  LET c1 == FirstIndex(x.s, ChComma) IN Str(SubSeq(x.s, c1 + 1, Len(x.s)), x.fill)

\* a base64 descriptor whose data passes the required-field test and the size guard
DataDecoded ==
  /\ Loading /\ Src.kind = "base64" /\ Has(Src, "data")
  /\ StrLen(Src.data) > 0 /\ StrLen(Src.data) <= MaxBase64Length

\* C22: for data beginning with 'data:' loadImage returns the base64
\* decoding of everything after the first comma, to the end of the string;
\* for any other data it returns the base64 decoding of the whole string.
C22_AfterFirstComma ==
  DataDecoded
    => IF StartsWith(Src.data.s, DataPrefix)
       THEN Contains(Src.data.s, ChComma)
              => loaded = Return(BufferFromBase64(AfterFirstComma(Src.data)))
       ELSE loaded = Return(BufferFromBase64(Src.data))

\* the field f of the descriptor is populated
Populated(f) ==
  /\ Has(Src, f)
  /\ IF f \in {"path", "url"} THEN Src[f] # <<>> ELSE StrLen(Src[f]) > 0

\* exactly one payload field is populated, and it is the field of the kind
WellFormed ==
  {f \in {"path", "url", "data", "buffer"} : Populated(f)} = {FieldOf(Src.kind)}

\* C23: a descriptor that reaches loadImage through a tool has exactly one
\* payload field populated, the one of its kind; any other descriptor is
\* rejected before a file is read, a URL fetched or a string decoded.
C23_OneFieldPopulated ==
  tool \in Tools
    => \/ WellFormed
       \/ /\ loaded # None /\ loaded.t = "throw"
          /\ Count("readFile") = 0 /\ Count("fetch") = 0 /\ Count("decode") = 0

\* the descriptor cut down to its kind and the field the kind selects
Selected ==
  [f \in {"kind"} \cup ({FieldOf(Src.kind)} \cap DOMAIN Src) |-> Src[f]]

\* the calls of the load, without the parser call and the response after them
LoadCalls == SubSeq(calls, 1, Len(calls) - Count("parse") - Count("respond"))

\* C24: the outcome of loadImage and its I/O are those of the descriptor
\* cut down to its kind and the field the kind selects: the same call with
\* the same target is awaited, the same calls are made and, with the same
\* answer of the environment, the same bytes or the same error result; so
\* nothing is read, fetched or decoded from a field the kind does not select.
C24_SelectedFieldOnly ==
  Loading /\ Src.kind \in Kinds
    => /\ LoadCalls = CallsOf(LoadBody(Selected))
       /\ IF LoadBody(Selected).t = "await"
          THEN /\ io = LoadBody(Selected)
               /\ loaded # None => loaded = LoadCatch(LoadResume(io.op, ioRes))
          ELSE /\ io = None
               /\ loaded = LoadCatch(LoadBody(Selected))

C24_Witness ==
  /\ Loading /\ Src.kind = "url"
  /\ DOMAIN Src = {"kind", "path", "url", "data", "buffer"}
  /\ calls = <<"fetch">>
  /\ io = Await("fetch", Src.url)
  /\ loaded = Return(Bytes(<<255, 216, 255>>, 0))

\* the key read-xmp and the single-segment tools look up in the parser result
NamedKey ==
  CASE tool = "read-xmp" -> "xmp" [] tool = "read-icc" -> "icc" [] tool = "read-iptc" -> "iptc"
    [] tool = "read-jfif" -> "jfif" [] tool = "read-ihdr" -> "ihdr"

\* the segment name in the nothing-found message of these tools
NamedSegment ==
  CASE tool = "read-xmp" -> "XMP" [] tool = "read-icc" -> "ICC" [] tool = "read-iptc" -> "IPTC"
    [] tool = "read-jfif" -> "JFIF" [] tool = "read-ihdr" -> "IHDR"

\* the parser result is present and holds a truthy entry under the named key
HasNamedEntry(v) ==
  v.t = "object" /\ NamedKey \in DOMAIN v.o /\ ~Not(v.o[NamedKey])

\* C25: read-xmp and the four single-segment tools succeed iff the parser
\* result holds a truthy entry under their one named key (xmp, or the
\* lower-cased segment name); without it, a result with other keys included,
\* the answer is the 'No <segment> metadata found' error, and with it the
\* payload is the whole parser result.
C25_NamedKeyDecides ==
  Answered /\ tool \in {"read-xmp", "read-icc", "read-iptc", "read-jfif", "read-ihdr"} /\ ParserReturned
    => IF HasNamedEntry(parserRes.value)
       THEN /\ IsSuccess(response)
            /\ response = createSuccessResponse(parserRes.value)
            /\ DOMAIN JSONParse(TextOf(response)).o = DOMAIN parserRes.value.o
       ELSE /\ IsError(response)
            /\ TextOf(response).msg = <<"No ", NamedSegment, " metadata", " found", " in image">>

C25_Witness ==
  /\ Answered /\ tool = "read-jfif" /\ ParserReturned
  /\ parserRes.value = JObj([iptc |-> JObj([Keywords |-> JStr("k")]), ihdr |-> JObj([ImageWidth |-> JNum(1)])])
  /\ IsError(response)
  /\ TextOf(response) = Message(<<"No ", "JFIF", " metadata", " found", " in image">>)

====
